---- MODULE Spec2Model ----
(***************************************************************************)
(* Model of suiup's src/commands/mod.rs: the command router Command::exec, *)
(* the BinaryName identity model, and the specifier parser                 *)
(* parse_component_with_version / parse_version_spec.                      *)
(*                                                                         *)
(* A Rust String / &str is a sequence of one-character strings.            *)
(* Option<T>: None is <<>>, Some(x) is <<x>>.                              *)
(* Result<T, E>: Ok(v) is <<"Ok", v>>, Err(e) is <<"Err", e>>.             *)
(***************************************************************************)
EXTENDS Integers, Sequences, FiniteSets, TLC

VARIABLES
    \* Command::exec
    pc, command, github_token, disable_update_warnings, log, check_outcome,
    handler_result, exec_result,
    \* the call under examination of the pure functions
    op,
    \* parse_component_with_version
    input, split_char, parts, result,
    \* parse_version_spec
    spec, version_result,
    \* BinaryName
    variant, name_in, str_out, name_out

vars == <<pc, command, github_token, disable_update_warnings, log, check_outcome,
          handler_result, exec_result, op, input, split_char, parts, result,
          spec, version_result, variant, name_in, str_out, name_out>>

router_vars == <<pc, command, github_token, disable_update_warnings, log,
                 check_outcome, handler_result, exec_result>>
parser_vars == <<input, split_char, parts, result>>
version_vars == <<spec, version_result>>
name_vars == <<variant, name_in, str_out, name_out>>

-----------------------------------------------------------------------------
(* Bounds *)

\* An input string is the concatenation of at most MaxTokens tokens.
MaxTokens == 4

-----------------------------------------------------------------------------
(* Option and Result *)

None == <<>>
Some(x) == <<x>>
Ok(v) == <<"Ok", v>>
Err(e) == <<"Err", e>>
is_err(r) == r[1] = "Err"

-----------------------------------------------------------------------------
(* Strings *)

\* ASCII letters: <<uppercase, lowercase>>
CasePairs ==
    { <<"A","a">>, <<"B","b">>, <<"C","c">>, <<"D","d">>, <<"E","e">>,
      <<"F","f">>, <<"G","g">>, <<"H","h">>, <<"I","i">>, <<"J","j">>,
      <<"K","k">>, <<"L","l">>, <<"M","m">>, <<"N","n">>, <<"O","o">>,
      <<"P","p">>, <<"Q","q">>, <<"R","r">>, <<"S","s">>, <<"T","t">>,
      <<"U","u">>, <<"V","v">>, <<"W","w">>, <<"X","x">>, <<"Y","y">>,
      <<"Z","z">> }

\* char::to_ascii_lowercase
to_ascii_lowercase(c) ==
    IF \E p \in CasePairs : p[1] = c
    THEN (CHOOSE p \in CasePairs : p[1] = c)[2]
    ELSE c

\* str::to_lowercase (on the ASCII range the model's inputs are drawn from)
to_lowercase(s) == [i \in 1..Len(s) |-> to_ascii_lowercase(s[i])]

\* str::eq_ignore_ascii_case
eq_ignore_ascii_case(a, b) ==
    /\ Len(a) = Len(b)
    /\ \A i \in 1..Len(a) : to_ascii_lowercase(a[i]) = to_ascii_lowercase(b[i])

\* whether pat occurs in s at position i
matches_at(s, pat, i) ==
    /\ i >= 1
    /\ i + Len(pat) - 1 <= Len(s)
    /\ SubSeq(s, i, i + Len(pat) - 1) = pat

\* the positions at which pat occurs in s
occurrences(s, pat) == { i \in 1..(Len(s) - Len(pat) + 1) : matches_at(s, pat, i) }

\* str::contains(&str)
contains(s, pat) == occurrences(s, pat) # {}

\* str::find(&str): the leftmost occurrence, 0 when there is none
find(s, pat) ==
    LET occ == occurrences(s, pat) IN
    IF occ = {} THEN 0
    ELSE CHOOSE i \in occ : \A j \in occ : i <= j

\* str::starts_with(&str)
starts_with(s, pat) == matches_at(s, pat, 1)

RECURSIVE splitn(_, _, _)
\* str::splitn(n, pat): at most n pieces, the last one holding the rest
splitn(s, n, pat) ==
    IF n = 0 THEN <<>>
    ELSE LET i == find(s, pat) IN
         IF n = 1 \/ i = 0 THEN <<s>>
         ELSE <<SubSeq(s, 1, i - 1)>>
              \o splitn(SubSeq(s, i + Len(pat), Len(s)), n - 1, pat)

\* a split that stops after the first occurrence of pat
split_once(s, pat) == splitn(s, 2, pat)

RECURSIVE split(_, _)
\* str::split(&str): every non-overlapping occurrence, leftmost first
split(s, pat) ==
    LET i == find(s, pat) IN
    IF i = 0 THEN <<s>>
    ELSE <<SubSeq(s, 1, i - 1)>> \o split(SubSeq(s, i + Len(pat), Len(s)), pat)

\* string literals of the source
s_mvr == <<"m","v","r">>
s_sui == <<"s","u","i">>
s_walrus == <<"w","a","l","r","u","s">>
s_site_builder == <<"s","i","t","e","-","b","u","i","l","d","e","r">>
s_testnet == <<"t","e","s","t","n","e","t">>
s_devnet == <<"d","e","v","n","e","t">>
s_mainnet == <<"m","a","i","n","n","e","t">>
s_at == <<"@">>
s_eqeq == <<"=","=">>
s_eq == <<"=">>
s_space == <<" ">>
s_dash == <<"-">>

-----------------------------------------------------------------------------
(* BinaryName *)

Variants == {"Mvr", "Sui", "Walrus", "WalrusSites"}

\* to_str with the site builder named after its repository
to_str_repo_name(x) ==
    CASE x = "Mvr" -> s_mvr
      [] x = "Sui" -> s_sui
      [] x = "Walrus" -> s_walrus
      [] x = "WalrusSites" -> <<"w","a","l","r","u","s","-","s","i","t","e","s">>

\* BinaryName::to_str
to_str(x) ==
    CASE x = "Mvr" -> s_mvr
      [] x = "Sui" -> s_sui
      [] x = "Walrus" -> s_walrus
      [] x = "WalrusSites" -> s_site_builder

\* impl Display for BinaryName
fmt(x) ==
    CASE x = "Mvr" -> s_mvr
      [] x = "Sui" -> s_sui
      [] x = "Walrus" -> s_walrus
      [] x = "WalrusSites" -> s_site_builder

\* impl FromStr for BinaryName
from_str(s) ==
    LET l == to_lowercase(s) IN
    IF l = s_sui THEN Ok("Sui")
    ELSE IF l = s_mvr THEN Ok("Mvr")
    ELSE IF l = s_walrus THEN Ok("Walrus")
    ELSE IF l = s_site_builder THEN Ok("WalrusSites")
    ELSE Err(<<"Unknown binary: ", s>>)

\* derive(ValueEnum): the variants in declaration order
value_variants == <<"Mvr", "Sui", "Walrus", "WalrusSites">>

\* derive(ValueEnum): the #[value(name = ...)] of each variant
to_possible_value(x) ==
    CASE x = "Mvr" -> s_mvr
      [] x = "Sui" -> s_sui
      [] x = "Walrus" -> s_walrus
      [] x = "WalrusSites" -> s_site_builder

\* PossibleValue::matches
possible_value_matches(name, value, ignore_case) ==
    IF ignore_case THEN eq_ignore_ascii_case(name, value) ELSE name = value

\* ValueEnum::from_str(input, ignore_case): the first matching variant
value_enum_from_str(s, ignore_case) ==
    LET hits == { i \in 1..Len(value_variants) :
                    possible_value_matches(to_possible_value(value_variants[i]),
                                           s, ignore_case) } IN
    IF hits = {} THEN Err(<<"invalid variant: ", s>>)
    ELSE Ok(value_variants[CHOOSE i \in hits : \A j \in hits : i <= j])

-----------------------------------------------------------------------------
(* Specifier parser *)

\* the network-prefix test taken for "has a '-' somewhere"
has_network_prefix_any_dash(s) == contains(s, s_dash)

\* the condition of the first branch of parse_version_spec
has_network_prefix(s) ==
    \/ starts_with(s, s_testnet \o s_dash)
    \/ starts_with(s, s_devnet \o s_dash)
    \/ starts_with(s, s_mainnet \o s_dash)

\* parse_version_spec splitting the prefixed form on every '-'
parse_version_spec_split_all(sp) ==
    IF sp = None THEN Ok(<<s_testnet, None>>)
    ELSE LET s == sp[1] IN
         IF has_network_prefix(s)
         THEN LET ps == split(s, s_dash) IN Ok(<<ps[1], Some(ps[2])>>)
         ELSE IF s = s_testnet \/ s = s_devnet \/ s = s_mainnet
         THEN Ok(<<s, None>>)
         ELSE Ok(<<s_testnet, Some(s)>>)

\* parse_version_spec
parse_version_spec(sp) ==
    IF sp = None THEN Ok(<<s_testnet, None>>)
    ELSE LET s == sp[1] IN
         IF has_network_prefix(s)
         THEN LET ps == splitn(s, 2, s_dash) IN Ok(<<ps[1], Some(ps[2])>>)
         ELSE IF s = s_testnet \/ s = s_devnet \/ s = s_mainnet
         THEN Ok(<<s, None>>)
         ELSE Ok(<<s_testnet, Some(s)>>)

\* the delimiter selection with '=' tried before '@'
select_split_char_eq_first(s) ==
    IF contains(s, s_eqeq) THEN s_eqeq
    ELSE IF contains(s, s_eq) THEN s_eq
    ELSE IF contains(s, s_at) THEN s_at
    ELSE s_space

\* let split_char = if s.contains("@") ...
select_split_char(s) ==
    IF contains(s, s_at) THEN s_at
    ELSE IF contains(s, s_eqeq) THEN s_eqeq
    ELSE IF contains(s, s_eq) THEN s_eq
    ELSE s_space

\* anyhow!("Invalid binary name: {}. Use ...", parts[0]): the format string
\* with its hole filled (the source's backquotes are written as quotes)
invalid_binary_name(token) ==
    <<"Invalid binary name: ", token,
      ". Use 'suiup list' to find available binaries to install.">>

\* bail!("Invalid format. Use 'binary' or 'binary version'")
invalid_format == <<"Invalid format. Use 'binary' or 'binary version'">>

\* an arm where an unknown name falls back to sui, as repo_url's default does
resolve_default_sui(token, sp) ==
    LET component == value_enum_from_str(token, TRUE)
        nv == parse_version_spec(sp) IN
    IF is_err(nv) THEN nv
    ELSE Ok([name |-> IF is_err(component) THEN "Sui" ELSE component[2],
             network |-> nv[2][1], version |-> nv[2][2]])

\* one arm of match parts.len(): resolve the name, then the version spec
resolve(token, sp) ==
    LET component == value_enum_from_str(token, TRUE) IN
    IF is_err(component) THEN Err(invalid_binary_name(token))
    ELSE LET nv == parse_version_spec(sp) IN
         IF is_err(nv) THEN nv
         ELSE Ok([name |-> component[2], network |-> nv[2][1], version |-> nv[2][2]])

\* match parts.len() { 1 => ..., 2 => ..., _ => bail!(...) }
match_parts(ps) ==
    IF Len(ps) = 1 THEN resolve(ps[1], None)
    ELSE IF Len(ps) = 2 THEN resolve(ps[1], Some(ps[2]))
    ELSE Err(invalid_format)

\* parse_component_with_version
parse_component_with_version(s) == match_parts(split(s, select_split_char(s)))

-----------------------------------------------------------------------------
(* Inputs *)

\* the pieces the input strings are built from
Tokens ==
    { s_sui, <<"S","u","I">>, <<"x">>, s_at, s_eq, s_space, s_dash,
      s_testnet, s_devnet, s_mainnet }

RECURSIVE Inputs(_)
\* every concatenation of at most n tokens
Inputs(n) ==
    IF n = 0 THEN { <<>> }
    ELSE LET shorter == Inputs(n - 1) IN
         shorter \cup { s \o t : s \in shorter, t \in Tokens }

\* a name, a delimiter, and at most n - 1 tokens after them
Specifiers(n) ==
    { name \o delim \o rest :
        name \in { s_sui, <<"S","u","I">>, <<"x">> },
        delim \in { s_at, s_eq, s_space },
        rest \in Inputs(n - 1) }

\* the two cases of a letter, the character itself otherwise
CaseSet(c) ==
    {c} \cup { p[1] : p \in { q \in CasePairs : q[2] = c } }
        \cup { p[2] : p \in { q \in CasePairs : q[1] = c } }

RECURSIVE CaseMixes(_)
\* every letter-case mix of s
CaseMixes(s) ==
    IF s = <<>> THEN { <<>> }
    ELSE { <<c>> \o rest : c \in CaseSet(Head(s)), rest \in CaseMixes(Tail(s)) }

\* strings offered to the BinaryName parsers
NameInputs ==
    CaseMixes(s_mvr) \cup CaseMixes(s_sui) \cup CaseMixes(s_walrus)
        \cup CaseMixes(s_site_builder)
        \cup { <<>>, <<"x">>, s_sui \o s_space, s_testnet,
               <<"w","a","l","r","u","s","-","s","i","t","e","s">>,
               <<"s","u">>, <<"s","i","t","e","_","b","u","i","l","d","e","r">> }

Commands ==
    { "default", "install", "remove", "list", "self", "show", "switch",
      "update", "which", "cleanup" }

\* values of the global --github-token option
GithubTokens == { None, Some("ghp_A"), Some("ghp_B") }

\* what a subcommand handler's exec returns
HandlerResults == { Ok(<<>>), Err("handler failed") }

\* how the update check ends; check_for_updates() returns nothing to exec
CheckOutcomes == { "ok", "failed" }

Pending == <<"Pending">>

-----------------------------------------------------------------------------
(* Initial states *)

RouterIdle ==
    /\ pc = "idle"
    /\ command = "none"
    /\ github_token = None
    /\ disable_update_warnings = FALSE
    /\ log = <<>>
    /\ check_outcome = "none"
    /\ handler_result = Pending
    /\ exec_result = Pending

ParserIdle ==
    /\ input = <<>>
    /\ split_char = <<>>
    /\ parts = <<>>
    /\ result = Pending

VersionIdle ==
    /\ spec = None
    /\ version_result = Pending

NameIdle ==
    /\ variant = "none"
    /\ name_in = <<>>
    /\ str_out = Pending
    /\ name_out = Pending

\* Command::parse(): a subcommand and the two global options
Init ==
    /\ pc = "pre_check"
    /\ command \in Commands
    /\ github_token \in GithubTokens
    /\ disable_update_warnings \in BOOLEAN
    /\ log = <<>>
    /\ check_outcome = "none"
    /\ handler_result = Pending
    /\ exec_result = Pending
    /\ op = "none"
    /\ ParserIdle /\ VersionIdle /\ NameIdle

\* a call of parse_component_with_version about to be made
ParseInit ==
    /\ RouterIdle /\ VersionIdle /\ NameIdle
    /\ op = "parse_component_with_version"
    /\ \/ input \in Inputs(MaxTokens)
       \/ input \in Specifiers(MaxTokens)
    /\ split_char = <<>>
    /\ parts = <<>>
    /\ result = Pending

\* a call of parse_version_spec about to be made
VersionInit ==
    /\ RouterIdle /\ ParserIdle /\ NameIdle
    /\ op = "parse_version_spec"
    /\ \/ spec = None
       \/ \E s \in Inputs(MaxTokens) : spec = Some(s)
    /\ version_result = Pending

\* a call on a BinaryName, or of one of its parsers, about to be made
NameInit ==
    /\ RouterIdle /\ ParserIdle /\ VersionIdle
    /\ str_out = Pending
    /\ name_out = Pending
    /\ \/ /\ op \in { "to_str", "fmt" }
          /\ variant \in Variants
          /\ name_in = <<>>
       \/ /\ op \in { "from_str", "value_enum_from_str" }
          /\ variant = "none"
          /\ name_in \in NameInputs

-----------------------------------------------------------------------------
(* Command::exec *)

\* the update check runs whatever the subcommand
update_check_due_any_command == ~disable_update_warnings

\* !matches!(self.command, Commands::Self_(_)) && !self.disable_update_warnings
update_check_due == command # "self" /\ ~disable_update_warnings

\* check_for_updates();
CheckForUpdates ==
    /\ pc = "pre_check"
    /\ update_check_due
    /\ \E o \in CheckOutcomes : check_outcome' = o
    /\ log' = Append(log, <<"check_for_updates", <<>>>>)
    /\ pc' = "dispatch"
    /\ UNCHANGED <<command, github_token, disable_update_warnings,
                   handler_result, exec_result>>
    /\ UNCHANGED <<op, parser_vars, version_vars, name_vars>>

\* the if of exec not taken
SkipUpdateCheck ==
    /\ pc = "pre_check"
    /\ ~update_check_due
    /\ pc' = "dispatch"
    /\ UNCHANGED <<command, github_token, disable_update_warnings, log,
                   check_outcome, handler_result, exec_result>>
    /\ UNCHANGED <<op, parser_vars, version_vars, name_vars>>

\* the handler of subcommand c is entered with arguments args
Enter(c, args) ==
    /\ log' = Append(log, <<c, args>>)
    /\ pc' = "dispatched"
    /\ UNCHANGED <<command, github_token, disable_update_warnings,
                   check_outcome, handler_result, exec_result>>
    /\ UNCHANGED <<op, parser_vars, version_vars, name_vars>>

\* Commands::Default(cmd) => cmd.exec()
Default ==
    /\ pc = "dispatch"
    /\ command = "default"
    /\ Enter("default", <<>>)

\* Commands::Install(cmd) => cmd.exec(&self.github_token).await
Install ==
    /\ pc = "dispatch"
    /\ command = "install"
    /\ Enter("install", <<github_token>>)

\* Commands::Remove(cmd) => cmd.exec(&self.github_token).await
Remove ==
    /\ pc = "dispatch"
    /\ command = "remove"
    /\ Enter("remove", <<github_token>>)

\* Commands::List(cmd) => cmd.exec(&self.github_token).await
List ==
    /\ pc = "dispatch"
    /\ command = "list"
    /\ Enter("list", <<github_token>>)

\* Commands::Self_(cmd) => cmd.exec().await
Self_ ==
    /\ pc = "dispatch"
    /\ command = "self"
    /\ Enter("self", <<>>)

\* the show arm handing the token over
Show_with_token ==
    /\ pc = "dispatch"
    /\ command = "show"
    /\ Enter("show", <<github_token>>)

\* Commands::Show(cmd) => cmd.exec()
Show ==
    /\ pc = "dispatch"
    /\ command = "show"
    /\ Enter("show", <<>>)

\* Commands::Switch(cmd) => cmd.exec()
Switch ==
    /\ pc = "dispatch"
    /\ command = "switch"
    /\ Enter("switch", <<>>)

\* Commands::Update(cmd) => cmd.exec(&self.github_token).await
Update ==
    /\ pc = "dispatch"
    /\ command = "update"
    /\ Enter("update", <<github_token>>)

\* Commands::Which(cmd) => cmd.exec()
Which ==
    /\ pc = "dispatch"
    /\ command = "which"
    /\ Enter("which", <<>>)

\* Commands::Cleanup(cmd) => cmd.exec(&self.github_token).await
Cleanup ==
    /\ pc = "dispatch"
    /\ command = "cleanup"
    /\ Enter("cleanup", <<github_token>>)

\* the handler returns and a failed update check is propagated
HandlerReturn_check_propagated ==
    /\ pc = "dispatched"
    /\ \E r \in HandlerResults :
         /\ handler_result' = r
         /\ exec_result' = IF check_outcome = "failed"
                           THEN Err("update check failed") ELSE r
    /\ pc' = "done"
    /\ UNCHANGED <<command, github_token, disable_update_warnings, log,
                   check_outcome>>
    /\ UNCHANGED <<op, parser_vars, version_vars, name_vars>>

\* the handler returns; the value of the match is the value of exec
HandlerReturn ==
    /\ pc = "dispatched"
    /\ \E r \in HandlerResults :
         /\ handler_result' = r
         /\ exec_result' = r
    /\ pc' = "done"
    /\ UNCHANGED <<command, github_token, disable_update_warnings, log,
                   check_outcome>>
    /\ UNCHANGED <<op, parser_vars, version_vars, name_vars>>

Next ==
    \/ CheckForUpdates
    \/ SkipUpdateCheck
    \/ Default
    \/ Install
    \/ Remove
    \/ List
    \/ Self_
    \/ Show
    \/ Switch
    \/ Update
    \/ Which
    \/ Cleanup
    \/ HandlerReturn

Spec == Init /\ [][Next]_vars

\* the steps of exec itself, up to the call of the handler
ExecStep ==
    \/ CheckForUpdates
    \/ SkipUpdateCheck
    \/ Default
    \/ Install
    \/ Remove
    \/ List
    \/ Self_
    \/ Show
    \/ Switch
    \/ Update
    \/ Which
    \/ Cleanup

\* exec is straight-line code in one future polled to completion: each of
\* its own steps is taken once it can be; a handler need not return
FairSpec == Spec /\ WF_vars(ExecStep)

-----------------------------------------------------------------------------
(* Calls of the parser *)

ParseComponentWithVersion ==
    /\ op = "parse_component_with_version"
    /\ result = Pending
    /\ split_char' = select_split_char(input)
    /\ parts' = split(input, select_split_char(input))
    /\ result' = parse_component_with_version(input)
    /\ UNCHANGED <<op, input, router_vars, version_vars, name_vars>>

ParseNext == ParseComponentWithVersion

ParseSpec == ParseInit /\ [][ParseNext]_vars

ParseVersionSpec ==
    /\ op = "parse_version_spec"
    /\ version_result = Pending
    /\ version_result' = parse_version_spec(spec)
    /\ UNCHANGED <<op, spec, router_vars, parser_vars, name_vars>>

VersionNext == ParseVersionSpec

VersionSpec == VersionInit /\ [][VersionNext]_vars

\* either function of the parser called
ParserInit == ParseInit \/ VersionInit

ParserNext ==
    \/ ParseComponentWithVersion
    \/ ParseVersionSpec

ParserSpec == ParserInit /\ [][ParserNext]_vars

-----------------------------------------------------------------------------
(* Calls on BinaryName *)

ToStr ==
    /\ op = "to_str"
    /\ str_out = Pending
    /\ str_out' = to_str(variant)
    /\ UNCHANGED <<op, variant, name_in, name_out, router_vars, parser_vars, version_vars>>

Display ==
    /\ op = "fmt"
    /\ str_out = Pending
    /\ str_out' = fmt(variant)
    /\ UNCHANGED <<op, variant, name_in, name_out, router_vars, parser_vars, version_vars>>

FromStr ==
    /\ op = "from_str"
    /\ name_out = Pending
    /\ name_out' = from_str(name_in)
    /\ UNCHANGED <<op, variant, name_in, str_out, router_vars, parser_vars, version_vars>>

ValueEnumFromStr ==
    /\ op = "value_enum_from_str"
    /\ name_out = Pending
    /\ name_out' = value_enum_from_str(name_in, TRUE)
    /\ UNCHANGED <<op, variant, name_in, str_out, router_vars, parser_vars, version_vars>>

NameNext ==
    \/ ToStr
    \/ Display
    \/ FromStr
    \/ ValueEnumFromStr

NameSpec == NameInit /\ [][NameNext]_vars

-----------------------------------------------------------------------------
(* Properties of Command::exec *)

\* the positions of the update check in the log of calls
ChecksLogged == { i \in DOMAIN log : log[i][1] = "check_for_updates" }

\* the positions of the subcommand handlers in the log of calls
HandlersLogged == { i \in DOMAIN log : log[i][1] \in Commands }

PastPreCheck == pc \in { "dispatch", "dispatched", "done" }

\* C1: in one exec, check_for_updates is called exactly once when the
\* subcommand is not self-update and disable_update_warnings is false, and
\* not at all when disable_update_warnings is true or the subcommand is
\* self-update.
C1_UpdateCheckExactlyOnce ==
    /\ pc = "pre_check" => ChecksLogged = {}
    /\ PastPreCheck /\ command # "self" /\ disable_update_warnings = FALSE
         => Cardinality(ChecksLogged) = 1
    /\ PastPreCheck /\ (command = "self" \/ disable_update_warnings = TRUE)
         => Cardinality(ChecksLogged) = 0

C1_Witness ==
    /\ pc = "done"
    /\ command = "install"
    /\ disable_update_warnings = FALSE
    /\ Cardinality(ChecksLogged) = 1

\* what holds of the calls made so far, at each position of exec
C8_OneHandlerAfterCheck ==
    /\ pc \in { "pre_check", "dispatch" } => HandlersLogged = {}
    /\ pc \in { "dispatched", "done" } =>
         /\ Cardinality(HandlersLogged) = 1
         /\ log[Len(log)][1] = command
         /\ \A i \in ChecksLogged : \A j \in HandlersLogged : i < j
    /\ pc = "done" <=> exec_result # Pending
    /\ pc = "done" => exec_result \in HandlerResults /\ exec_result = handler_result

\* C8: every exec goes from pre-check to dispatched: after the (possibly
\* skipped) update check exactly one handler runs, the selected subcommand's,
\* the check precedes it, the handler is reached whether the check succeeded
\* or failed, and exec's result is the handler's result alone.
C8_PreCheckToDispatched ==
    /\ []C8_OneHandlerAfterCheck
    /\ (pc = "pre_check") ~> (pc = "dispatched")
    /\ (pc = "dispatch" /\ check_outcome = "failed") ~> (pc = "dispatched")

C8_Witness ==
    /\ pc = "done"
    /\ command = "install"
    /\ check_outcome = "failed"
    /\ log = << <<"check_for_updates", <<>>>>, <<"install", <<github_token>>>> >>
    /\ exec_result = Ok(<<>>)

\* the handlers that perform network requests
TokenHandlers == { "install", "remove", "list", "update", "cleanup" }

\* every handler called so far got the token, or nothing, as C9 says
C9_ArgumentsPassed ==
    \A i \in HandlersLogged :
        log[i][2] = IF log[i][1] \in TokenHandlers THEN <<github_token>> ELSE <<>>

\* C9: the router passes github_token, unchanged, to exactly install, remove,
\* list, update and cleanup, passes nothing to default, self-update, show,
\* switch and which, and never modifies the two global options.
C9_TokenToNetworkHandlersOnly ==
    /\ []C9_ArgumentsPassed
    /\ [][ /\ github_token' = github_token
           /\ disable_update_warnings' = disable_update_warnings ]_vars

C9_Witness ==
    /\ pc = "done"
    /\ github_token = Some("ghp_A")
    /\ command = "cleanup"
    /\ log[Len(log)] = <<"cleanup", <<Some("ghp_A")>>>>

-----------------------------------------------------------------------------
(* Properties of the specifier parser *)

\* pat occurs somewhere in s, character by character
Occurs(s, pat) ==
    \E i \in 1..Len(s) :
        /\ i + Len(pat) - 1 <= Len(s)
        /\ \A k \in 1..Len(pat) : s[i + k - 1] = pat[k]

RECURSIVE Join(_, _)
\* the pieces ps with d put back between them
Join(ps, d) ==
    IF Len(ps) = 0 THEN <<>>
    ELSE IF Len(ps) = 1 THEN ps[1]
    ELSE ps[1] \o d \o Join(Tail(ps), d)

\* a and b are the same string up to the case of their letters
SameLetters(a, b) ==
    /\ Len(a) = Len(b)
    /\ \A i \in 1..Len(a) :
         \/ a[i] = b[i]
         \/ <<a[i], b[i]>> \in CasePairs
         \/ <<b[i], a[i]>> \in CasePairs

\* the canonical string of each variant
Canonical(x) ==
    CASE x = "Mvr" -> <<"m","v","r">>
      [] x = "Sui" -> <<"s","u","i">>
      [] x = "Walrus" -> <<"w","a","l","r","u","s">>
      [] x = "WalrusSites" -> <<"s","i","t","e","-","b","u","i","l","d","e","r">>

\* the variants a string names, case-insensitively
NamedBy(s) == { x \in Variants : SameLetters(s, Canonical(x)) }

Networks == { <<"t","e","s","t","n","e","t">>, <<"d","e","v","n","e","t">>,
              <<"m","a","i","n","n","e","t">> }

\* the networks n such that s is n, a '-', and anything
PrefixesOf(s) ==
    { n \in Networks :
        /\ Len(s) >= Len(n) + 1
        /\ SubSeq(s, 1, Len(n)) = n
        /\ s[Len(n) + 1] = "-" }

\* the (network, version) that C4 gives for a version spec
Expected(sp) ==
    IF sp = None THEN << <<"t","e","s","t","n","e","t">>, None >>
    ELSE LET s == sp[1] IN
         IF PrefixesOf(s) # {}
         THEN LET n == CHOOSE n \in PrefixesOf(s) : TRUE IN
              <<n, Some(SubSeq(s, Len(n) + 2, Len(s)))>>
         ELSE IF s \in Networks THEN <<s, None>>
         ELSE << <<"t","e","s","t","n","e","t">>, Some(s) >>

Parsed == op = "parse_component_with_version" /\ result # Pending

\* C2: the delimiter is chosen on the whole input in the order '@', '==',
\* '=', ' ': '@' if the input contains '@' anywhere, else '==' if it contains
\* '==', else '=' if it contains '=', else ' '; the other delimiters stay
\* inside the parts, so putting the chosen one back between the parts gives
\* the input.
C2_DelimiterPriority ==
    Parsed =>
        /\ Occurs(input, <<"@">>) => split_char = <<"@">>
        /\ ~Occurs(input, <<"@">>) /\ Occurs(input, <<"=","=">>)
             => split_char = <<"=","=">>
        /\ ~Occurs(input, <<"@">>) /\ ~Occurs(input, <<"=","=">>)
             /\ Occurs(input, <<"=">>) => split_char = <<"=">>
        /\ ~Occurs(input, <<"@">>) /\ ~Occurs(input, <<"=">>)
             => split_char = <<" ">>
        /\ Join(parts, split_char) = input

C2_Witness ==
    /\ Parsed
    /\ Occurs(input, <<"@">>) /\ Occurs(input, <<"=","=">>) /\ Occurs(input, <<" ">>)
    /\ split_char = <<"@">>
    /\ Len(parts) = 2
    /\ Occurs(parts[2], <<"=","=">>) /\ Occurs(parts[2], <<" ">>)

\* the result C3 gives for a valid name and an optional second part
MetadataFor(token, sp) ==
    Ok([name |-> CHOOSE x \in NamedBy(token) : TRUE,
        network |-> Expected(sp)[1],
        version |-> Expected(sp)[2]])

\* C3: the input is split on every occurrence of the delimiter, and only 1
\* or 2 parts are accepted: 3 or more parts give the error "Invalid format.
\* Use 'binary' or 'binary version'" whatever part 0 is; 1 part with a valid
\* name gives {name, "testnet", None}; 2 parts with a valid name give {name,
\* parse_version_spec(Some(part 1))}.
C3_OneOrTwoParts ==
    Parsed =>
        /\ Len(parts) >= 1
        /\ Join(parts, split_char) = input
        /\ \A i \in DOMAIN parts : ~Occurs(parts[i], split_char)
        /\ Len(parts) >= 3
             => result = Err(<<"Invalid format. Use 'binary' or 'binary version'">>)
        /\ Len(parts) = 1 /\ NamedBy(parts[1]) # {}
             => result = Ok([name |-> CHOOSE x \in NamedBy(parts[1]) : TRUE,
                             network |-> <<"t","e","s","t","n","e","t">>,
                             version |-> None])
        /\ Len(parts) = 2 /\ NamedBy(parts[1]) # {}
             => result = MetadataFor(parts[1], Some(parts[2]))

C3_Witness ==
    /\ Parsed
    /\ input = <<"s","u","i","@","x","@","x">>
    /\ parts = << <<"s","u","i">>, <<"x">>, <<"x">> >>
    /\ result = Err(<<"Invalid format. Use 'binary' or 'binary version'">>)

\* C7: when the split yields 1 or 2 parts and part 0 is not, whatever the
\* case of its letters, one of mvr, sui, walrus, site-builder (the empty
\* string included), the result is the error "Invalid binary name: <part 0>.
\* Use 'suiup list' ..." naming part 0, whatever part 1 is, and no
\* CommandMetadata.
C7_InvalidBinaryName ==
    Parsed /\ Len(parts) \in {1, 2} /\ NamedBy(parts[1]) = {} =>
        result = Err(<<"Invalid binary name: ", parts[1],
                       ". Use 'suiup list' to find available binaries to install.">>)

C7_Witness ==
    /\ Parsed
    /\ input = <<"x","@","t","e","s","t","n","e","t">>
    /\ parts = << <<"x">>, <<"t","e","s","t","n","e","t">> >>
    /\ result[1] = "Err"
    /\ result[2][2] = <<"x">>

\* the version text an input pins: what follows the name and the optional
\* network prefix
PinnedText(ps) ==
    IF Len(ps) < 2 THEN <<>>
    ELSE LET e == Expected(Some(ps[2])) IN
         IF e[2] = None THEN <<>> ELSE e[2][1]

\* C5: a CommandMetadata has a non-empty network, and its version is Some(v)
\* exactly when the input carries a non-empty version text v after the name
\* and the optional network prefix, None otherwise: Some("") is never
\* produced.
C5_VersionNoneIffNotPinned ==
    Parsed /\ result[1] = "Ok" =>
        /\ result[2].network # <<>>
        /\ result[2].version # Some(<<>>)
        /\ result[2].version =
             IF PinnedText(parts) = <<>> THEN None ELSE Some(PinnedText(parts))

VersionParsed == op = "parse_version_spec" /\ version_result # Pending

\* C4: parse_version_spec never returns an error, and gives ("testnet", None)
\* for None; (the prefix without its '-', Some(everything after the first
\* '-')) for a text starting with "testnet-", "devnet-" or "mainnet-"; (s,
\* None) for s exactly "testnet", "devnet" or "mainnet"; ("testnet", Some(s))
\* for every other s.
C4_VersionSpecTable ==
    VersionParsed => version_result = Ok(Expected(spec))

C4_Witness ==
    /\ VersionParsed
    /\ spec = Some(<<"d","e","v","n","e","t","-","x","-">>)
    /\ version_result = Ok(<< <<"d","e","v","n","e","t">>, Some(<<"x","-">>) >>)

\* C10: the network of every result of parse_version_spec, and of every
\* CommandMetadata, is one of "testnet", "devnet", "mainnet"; a text with an
\* unrecognised prefix gets network "testnet" and is the version whole.
C10_NetworkOneOfThree ==
    /\ VersionParsed =>
         /\ version_result[1] = "Ok"
         /\ version_result[2][1] \in Networks
         /\ spec # None /\ PrefixesOf(spec[1]) = {} /\ spec[1] \notin Networks
              => version_result[2] = << <<"t","e","s","t","n","e","t">>, spec >>
    /\ Parsed /\ result[1] = "Ok" => result[2].network \in Networks

C10_Witness ==
    /\ VersionParsed
    /\ spec = Some(<<"x","-","x">>)
    /\ version_result = Ok(<< <<"t","e","s","t","n","e","t">>, Some(<<"x","-","x">>) >>)

-----------------------------------------------------------------------------
(* Properties of BinaryName *)

\* C6: for each variant x, Display(x) and to_str(x) are its canonical string
\* (mvr, sui, walrus, site-builder), the four strings differ, and parsing the
\* canonical string of x in any mix of letter cases returns x: strings and
\* variants correspond one to one.
C6_RoundTrip ==
    /\ \A x, y \in Variants : x # y => ~SameLetters(Canonical(x), Canonical(y))
    /\ op \in { "to_str", "fmt" } /\ str_out # Pending
         => str_out = Canonical(variant)
    /\ op \in { "from_str", "value_enum_from_str" } /\ name_out # Pending
         => /\ \A x \in Variants :
                 SameLetters(name_in, Canonical(x)) => name_out = Ok(x)
            /\ NamedBy(name_in) = {} => name_out[1] = "Err"

C6_Witness ==
    /\ op = "from_str"
    /\ name_in = <<"S","i","T","e","-","B","u","I","l","D","e","R">>
    /\ name_out = Ok("WalrusSites")

====
